---- MODULE Spec2Model ----
(***************************************************************************)
(* Model of src/model.cpp: Model::forward (the render pipeline),           *)
(* Model::getDownscaleFactor and Model::afterTrain (the density-control    *)
(* statistics engine), driven by a training loop that calls, for each      *)
(* step, forward -> backward (autodiff engine) -> afterTrain.              *)
(*                                                                         *)
(* Floats are exact rationals [n, d] in lowest terms (d = 0 is +inf, the   *)
(* result of a float division of a positive number by zero).  Every float  *)
(* product of the model has a power of two as one factor, so it is exact   *)
(* in the program as well.  Tensors over the primitives are functions on   *)
(* 1..NumPrims; an image is its shape and the set of its element values.   *)
(***************************************************************************)
EXTENDS Integers, Sequences, FiniteSets

\* ---------------------------------------------------------------- bounds
MaxStep == 3
MaxDim == 3
NumPrims == 2

Prims == 1..NumPrims

\* ------------------------------------------------------------ arithmetic
Max(a, b) == IF a >= b THEN a ELSE b
Min(a, b) == IF a <= b THEN a ELSE b

RECURSIVE GCD(_, _)
GCD(a, b) == IF b = 0 THEN a ELSE GCD(b, a % b)

RECURSIVE Pow2(_)
Pow2(k) == IF k = 0 THEN 1 ELSE 2 * Pow2(k - 1)

\* a non-negative rational n/d in lowest terms; n/0 with n > 0 is +inf
Rat(n, d) == LET g == GCD(n, d) IN
             IF g = 0 THEN [n |-> 0, d |-> 1] ELSE [n |-> n \div g, d |-> d \div g]
RMul(a, b) == Rat(a.n * b.n, a.d * b.d)
RInv(a) == Rat(a.d, a.n)
RLeq(a, b) == a.n * b.d <= b.n * a.d
RMax(a, b) == IF RLeq(a, b) THEN b ELSE a
RMin(a, b) == IF RLeq(a, b) THEN a ELSE b
ROne == Rat(1, 1)
RZero == Rat(0, 1)
RHalf == Rat(1, 2)

\* signed rationals are only needed for the spherical-harmonics output,
\* kept as a signed count of halves: rgbs + 0.5f, then clamp_min(., 0)
ShiftClamp(halves) == Rat(Max(halves + 1, 0), 2)

\* static_cast<int>(static_cast<float>(x) * f): truncation of x * f, x >= 0
TruncMul(x, f) == (x * f.n) \div f.d

RECURSIVE SumSeq(_, _)
SumSeq(f, k) == IF k = 0 THEN 0 ELSE f[k] + SumSeq(f, k - 1)

\* ------------------------------------------------------------ the state
VARIABLES
    \* configuration, fixed by the constructor
    numDownscales, resolutionSchedule, shDegree, shDegreeInterval,
    refineEvery, warmupLength, stopSplitAt, resetAlphaEvery, numCameras,
    backgroundColor, opacities, N,
    \* the camera handed to forward, and the training loop's position
    cam, step, pc,
    \* Model's per-step transient fields
    lastHeight, lastWidth, radii, xysRetainGrad, xysGrad,
    \* Model's running statistics (<<>> is a tensor with numel() = 0)
    xysGradNorm, visCounts, max2DSize,
    \* what the last forward call did: the camera at entry, the stages it
    \* invoked, the arguments it passed to them, the image it returned
    camBefore, stages, degreesToUse, rgbs, sigOpacities, image,
    \* what the last afterTrain call did, and the per-primitive history of
    \* the statistics updates (visible steps, their gradient magnitudes)
    atStep, gate, visSteps, visGradSum, initGrad

config == <<numDownscales, resolutionSchedule, shDegree, shDegreeInterval,
            refineEvery, warmupLength, stopSplitAt, resetAlphaEvery,
            numCameras, backgroundColor, opacities, N>>
transient == <<lastHeight, lastWidth, radii, xysRetainGrad>>
stats == <<xysGradNorm, visCounts, max2DSize>>
rendered == <<camBefore, stages, degreesToUse, rgbs, sigOpacities, image>>
history == <<visSteps, visGradSum, initGrad>>
vars == <<config, cam, step, pc, transient, xysGrad, stats, rendered,
          atStep, gate, history>>

Undefined == <<>>

\* ------------------------------------------------------- input domains
\* With numDownscales = 1 and resolutionSchedule = 2 the first two steps
\* render at half resolution and the later ones at full resolution.
RadiusVals == {0, 2, 5}
AllRadii == [Prims -> RadiusVals]
\* at most the first primitive is visible
FewRadii == {r \in AllRadii : \A i \in Prims : i > 1 => r[i] = 0}

\* spherical-harmonics outputs, in halves: -1.5 and 0.5
ShVals == {-3, 1}
AllSh == [Prims -> ShVals]
OneSh == {[i \in Prims |-> 1]}

\* rasterizer outputs: the set of element values of the image it returns
AllRaster == {{RZero, Rat(2, 1)}, {RHalf}}
OneRaster == {{RHalf}}

\* screen-space gradients of one primitive (dx, dy)
GradVals == {<<0, 0>>, <<3, 4>>}
AllGrads == [Prims -> GradVals]
OneGrad == {[i \in Prims |-> <<3, 4>>]}

\* opacity logits: every primitive at the same logit
LogitVals == {-100, 0, 100}
AllOpacities == {[i \in Prims |-> l] : l \in LogitVals}
BackgroundVals == {RHalf, Rat(3, 2)}

Cameras == {[height |-> h, width |-> w,
             fx |-> Rat(3, 1), fy |-> Rat(5, 2),
             cx |-> Rat(w, 2), cy |-> Rat(h, 2)] : h \in 1..MaxDim, w \in 1..MaxDim}

RenderConfigs ==
    {[numDownscales |-> nd, resolutionSchedule |-> 2,
      shDegree |-> sd, shDegreeInterval |-> si,
      refineEvery |-> 2, warmupLength |-> 1, stopSplitAt |-> 0,
      resetAlphaEvery |-> 3, numCameras |-> 0]
        : nd \in {1}, sd \in {2}, si \in {1, 2}}

DensityConfigs ==
    {[numDownscales |-> nd, resolutionSchedule |-> 2,
      shDegree |-> 2, shDegreeInterval |-> 1,
      refineEvery |-> re, warmupLength |-> wl, stopSplitAt |-> ss,
      resetAlphaEvery |-> 3, numCameras |-> 0]
        : nd \in {1}, re \in {1, 2}, wl \in {1}, ss \in {0, MaxStep}}

\* ------------------------------------------------------ Camera (helper)
\* Camera::scaleOutputResolution(scaleFactor): every resolution-dependent
\* field is multiplied by the factor; height and width are integers (they
\* are used as tensor sizes and in integer tile arithmetic), so the product
\* is converted back to int.
ScaleOutputResolution(c, f) ==
    [height |-> TruncMul(c.height, f), width |-> TruncMul(c.width, f),
     fx |-> RMul(c.fx, f), fy |-> RMul(c.fy, f),
     cx |-> RMul(c.cx, f), cy |-> RMul(c.cy, f)]

\* ------------------------------------------------------- Model::forward
\* std::pow(2, max(numDownscales - step / resolutionSchedule, 0))
GetDownscaleFactor(s) ==
    Pow2(Max(numDownscales - (s \div resolutionSchedule), 0))

\* float scaleFactor = 1.0f / static_cast<float>(getDownscaleFactor(step))
ScaleFactor(s) == RInv(Rat(GetDownscaleFactor(s), 1))

\* radii.sum().item<float>() == 0.0f
IsDegenerate(r) == SumSeq(r, NumPrims) = 0

\* the degree without its cap at shDegree
DegreesUncapped(s) == s \div shDegreeInterval

\* (std::min<int>)(step / shDegreeInterval, shDegree)
DegreesToUse(s) == Min(s \div shDegreeInterval, shDegree)

\* torch::clamp_min(rgbs + 0.5f, 0.0f)
ClampMinRgbs(sh) == [i \in Prims |-> ShiftClamp(sh[i])]

\* torch::sigmoid in float32: exp overflows to +inf at -100 (result 0) and
\* underflows at 100 (result 1)
Sigmoid(x) == IF x <= -100 THEN RZero ELSE IF x >= 100 THEN ROne ELSE RHalf
SigmoidAll(o) == [i \in Prims |-> Sigmoid(o[i])]

\* an image of the given shape holding the given element values
Image(h, w, vals) ==
    [height |-> h, width |-> w, vals |-> IF h * w = 0 THEN {} ELSE vals]

\* the background repeated before the resolution is scaled back
DegenerateImageEarly(scaled, restored) ==
    Image(scaled.height, scaled.width, {backgroundColor})

\* backgroundColor.repeat({cam.height, cam.width, 1}), cam being the camera
\* after its resolution was scaled back
DegenerateImage(scaled, restored) ==
    Image(restored.height, restored.width, {backgroundColor})

\* the rasterizer's output returned without the upper clamp
NoClampImage(h, w, raw) == Image(h, w, raw)

\* torch::clamp_max(rgb, 1.0f) on the rasterizer's output
ClampMaxImage(h, w, raw) == Image(h, w, {RMin(v, ROne) : v \in raw})

Forward(Radii, ShOut, RasterOut) ==
    \E r \in Radii, sh \in ShOut, raw \in RasterOut :
        LET scaleFactor == ScaleFactor(step)
            scaled == ScaleOutputResolution(cam, scaleFactor)
            restored == ScaleOutputResolution(scaled, RInv(scaleFactor))
        IN  /\ pc = "idle"
            /\ step <= MaxStep
            /\ camBefore' = cam
            /\ lastHeight' = scaled.height
            /\ lastWidth' = scaled.width
            /\ radii' = r
            /\ xysGrad' = Undefined
            /\ IF IsDegenerate(r)
               THEN /\ stages' = <<"project">>
                    /\ xysRetainGrad' = FALSE
                    /\ image' = DegenerateImage(scaled, restored)
                    /\ rgbs' = Undefined
                    /\ sigOpacities' = Undefined
                    /\ UNCHANGED degreesToUse
               ELSE /\ stages' = <<"project", "sh", "rasterize">>
                    /\ xysRetainGrad' = TRUE
                    /\ degreesToUse' = DegreesToUse(step)
                    /\ rgbs' = ClampMinRgbs(sh)
                    /\ sigOpacities' = SigmoidAll(opacities)
                    /\ image' = ClampMaxImage(scaled.height, scaled.width, raw)
            /\ cam' = restored
            /\ pc' = "rendered"
            /\ UNCHANGED <<config, step, stats, atStep, gate, history>>

\* ------------------------------------------------------ autodiff engine
\* loss.backward(): the gradient of the non-leaf xys is kept only if its
\* retention was requested
Backward(Grads) ==
    \E g \in Grads :
        /\ pc = "rendered"
        /\ xysGrad' = IF xysRetainGrad THEN g ELSE Undefined
        /\ pc' = "backpropagated"
        /\ UNCHANGED <<config, cam, step, transient, stats, rendered,
                       atStep, gate, history>>

\* ---------------------------------------------------- Model::afterTrain
\* the statistics block guarded by <= instead of <
StatsActiveInclusive(s) == s <= stopSplitAt

\* if (step < stopSplitAt)
StatsActive(s) == s < stopSplitAt

\* (radii > 0).flatten()
VisibleMask(r) == [i \in Prims |-> r[i] > 0]

\* torch::linalg::vector_norm(xys.grad().detach(), 2, {-1}): the L2 norm of
\* each primitive's (dx, dy)
VectorNorm(g) ==
    [i \in Prims |->
        LET sq == g[i][1] * g[i][1] + g[i][2] * g[i][2]
        IN  CHOOSE n \in 0..sq : n * n = sq]

\* if (!xysGradNorm.numel()) xysGradNorm = grads;
\* else xysGradNorm[visibleMask] = grads[visibleMask] + xysGradNorm[visibleMask]
UpdateXysGradNorm(old, grads, mask) ==
    IF old = Undefined THEN grads
    ELSE [i \in Prims |-> IF mask[i] THEN grads[i] + old[i] ELSE old[i]]

\* the visibility counts initialised with zeros_like instead of ones_like
UpdateVisCountsFromZero(oldNorm, old, mask) ==
    IF oldNorm = Undefined THEN [i \in Prims |-> 0]
    ELSE [i \in Prims |-> IF mask[i] THEN old[i] + 1 ELSE old[i]]

\* if (!xysGradNorm.numel()) visCounts = torch::ones_like(xysGradNorm);
\* else visCounts[visibleMask] = visCounts[visibleMask] + 1
UpdateVisCounts(oldNorm, old, mask) ==
    IF oldNorm = Undefined THEN [i \in Prims |-> 1]
    ELSE [i \in Prims |-> IF mask[i] THEN old[i] + 1 ELSE old[i]]


\* if (!max2DSize.numel()) max2DSize = torch::zeros_like(radii)
ZerosIfEmpty(old) == IF old = Undefined THEN [i \in Prims |-> RZero] ELSE old

\* the radius normalised by the smaller image dimension
UpdateMax2DSizeByMin(old, r, mask, h, w) ==
    [i \in Prims |->
        IF mask[i] THEN RMax(ZerosIfEmpty(old)[i], Rat(r[i], Min(h, w)))
        ELSE ZerosIfEmpty(old)[i]]

\* max2DSize[visibleMask] = maximum(max2DSize[visibleMask],
\*     newRadii / static_cast<float>(max(lastHeight, lastWidth)))
UpdateMax2DSize(old, r, mask, h, w) ==
    [i \in Prims |->
        IF mask[i] THEN RMax(ZerosIfEmpty(old)[i], Rat(r[i], Max(h, w)))
        ELSE ZerosIfEmpty(old)[i]]

\* the statistics block without its exit
ExitRemoved == FALSE

\* std::cout << max2DSize << std::endl; exit(1);
ExitAfterDump == TRUE

\* if (step % refineEvery == 0 && step > warmupLength)
GateDue(s) == s % refineEvery = 0 /\ s > warmupLength

\* int resetInterval = resetAlphaEvery * refineEvery;
\* bool doDensification = step < stopSplitAt
\*                        && step % resetInterval > numCameras + refineEvery;
DoDensification(s) ==
    /\ s < stopSplitAt
    /\ s % (resetAlphaEvery * refineEvery) > numCameras + refineEvery

\* what the lines after the statistics block do at step s
GateOutcome(s) ==
    IF ~GateDue(s) THEN "skipped"
    ELSE IF DoDensification(s) THEN "eligible" ELSE "ineligible"

\* afterTrain runs after the step's backward pass; while the statistics are
\* active it reads xys.grad(), which the caller must have populated
AfterTrain ==
    LET mask == VisibleMask(radii)
        grads == VectorNorm(xysGrad)
        first == xysGradNorm = Undefined
    IN  /\ pc = "backpropagated"
        /\ StatsActive(step) => xysGrad # Undefined
        /\ atStep' = step
        /\ IF StatsActive(step)
           THEN /\ xysGradNorm' = UpdateXysGradNorm(xysGradNorm, grads, mask)
                /\ visCounts' = UpdateVisCounts(xysGradNorm, visCounts, mask)
                /\ max2DSize' = UpdateMax2DSize(max2DSize, radii, mask,
                                                lastHeight, lastWidth)
                /\ visSteps' = [i \in Prims |->
                                  visSteps[i] + IF mask[i] THEN 1 ELSE 0]
                /\ visGradSum' = [i \in Prims |->
                                  visGradSum[i] + IF mask[i] THEN grads[i] ELSE 0]
                /\ initGrad' = IF first THEN grads ELSE initGrad
           ELSE UNCHANGED <<stats, history>>
        /\ IF StatsActive(step) /\ ExitAfterDump
           THEN /\ pc' = "exited"
                /\ gate' = "none"
                /\ UNCHANGED step
           ELSE /\ pc' = "idle"
                /\ gate' = GateOutcome(step)
                /\ step' = step + 1
        /\ UNCHANGED <<config, cam, transient, xysGrad, rendered>>

\* -------------------------------------------------------- specifications
InitWith(Configs, Steps, Backgrounds, Opacities) ==
    /\ \E c \in Configs :
        /\ numDownscales = c.numDownscales
        /\ resolutionSchedule = c.resolutionSchedule
        /\ shDegree = c.shDegree
        /\ shDegreeInterval = c.shDegreeInterval
        /\ refineEvery = c.refineEvery
        /\ warmupLength = c.warmupLength
        /\ stopSplitAt = c.stopSplitAt
        /\ resetAlphaEvery = c.resetAlphaEvery
        /\ numCameras = c.numCameras
    /\ backgroundColor \in Backgrounds
    /\ opacities \in Opacities
    /\ N = NumPrims
    /\ cam \in Cameras
    /\ step \in Steps
    /\ pc = "idle"
    /\ lastHeight = 0
    /\ lastWidth = 0
    /\ radii = Undefined
    /\ xysRetainGrad = FALSE
    /\ xysGrad = Undefined
    /\ xysGradNorm = Undefined
    /\ visCounts = Undefined
    /\ max2DSize = Undefined
    /\ camBefore = cam
    /\ stages = <<>>
    /\ degreesToUse = -1
    /\ rgbs = Undefined
    /\ sigOpacities = Undefined
    /\ image = Image(0, 0, {})
    /\ atStep = -1
    /\ gate = "none"
    /\ visSteps = [i \in Prims |-> 0]
    /\ visGradSum = [i \in Prims |-> 0]
    /\ initGrad = Undefined

\* A training run from step 0 with the statistics frozen from the start:
\* every render input varies.
Init == InitWith(RenderConfigs, {0}, BackgroundVals, AllOpacities)
Next ==
    \/ Forward(FewRadii, AllSh, AllRaster)
    \/ Backward(OneGrad)
    \/ AfterTrain
Spec == Init /\ [][Next]_vars

\* A training run entered at any step: every input of the statistics
\* engine varies.
InitDensity ==
    InitWith(DensityConfigs, 0..MaxStep, {RHalf}, {[i \in Prims |-> 0]})
NextDensity ==
    \/ Forward(AllRadii, OneSh, OneRaster)
    \/ Backward(AllGrads)
    \/ AfterTrain
SpecDensity == InitDensity /\ [][NextDensity]_vars

\* ================================================================ claims
forwardReturned == stages # <<>>
afterTrainCalled == atStep # -1
statsInitialized == xysGradNorm # Undefined

C2_DegenerateShortCircuit ==
    forwardReturned =>
        IF \A i \in Prims : radii[i] = 0
        THEN /\ stages = <<"project">>
             /\ image.height = cam.height
             /\ image.width = cam.width
             /\ image.vals = IF cam.height * cam.width = 0 THEN {}
                             ELSE {backgroundColor}
        ELSE stages = <<"project", "sh", "rasterize">>

\* a forward call took the degenerate path with a camera whose downscaled
\* size differs from its restored size
C2_Witness ==
    /\ forwardReturned
    /\ \A i \in Prims : radii[i] = 0
    /\ lastHeight # cam.height
    /\ image.vals = {backgroundColor}

\* C8 as stated: the returned image is <= 1.0 element-wise on every exit
\* path for every background colour; on the normal path the colours passed
\* to the rasterizer are >= 0 and the opacities are within [0, 1].
normalPath == forwardReturned /\ Len(stages) = 3
rasterArgsInRange ==
    \A i \in Prims :
        /\ RLeq(RZero, rgbs[i])
        /\ RLeq(RZero, sigOpacities[i])
        /\ RLeq(sigOpacities[i], ROne)
C8_ImageAtMostOne ==
    /\ forwardReturned => \A v \in image.vals : RLeq(v, ROne)
    /\ normalPath => rasterArgsInRange

\* C8, amended: the returned image is <= 1.0 element-wise on the rasterized
\* path, and on the degenerate path whenever the background colour is
\* <= 1.0 (that path returns the background unclamped); on the normal path
\* the colours passed to the rasterizer are >= 0 and the opacities are
\* within [0, 1].
C8_ImageAtMostOneAmended ==
    /\ (forwardReturned /\ (normalPath \/ RLeq(backgroundColor, ROne)))
            => \A v \in image.vals : RLeq(v, ROne)
    /\ normalPath => rasterArgsInRange

\* the rasterizer returned a value above 1.0 that was clamped, a negative
\* colour was floored at 0 and an opacity saturated at 1
C8_Witness ==
    /\ normalPath
    /\ image.vals = {RZero, ROne}
    /\ rgbs[1] = RZero
    /\ sigOpacities[1] = ROne
    /\ ~RLeq(backgroundColor, ROne)

\* C9: the degree passed to the colour stage at step s is
\* min(floor(s / shDegreeInterval), shDegree): within [0, shDegree], equal
\* to shDegree from step shDegree * shDegreeInterval on, and never
\* decreasing over a run.
C9_DegreeAtStep ==
    (normalPath /\ pc \in {"rendered", "backpropagated"}) =>
        /\ degreesToUse \in 0..shDegree
        /\ degreesToUse * shDegreeInterval <= step
        /\ degreesToUse < shDegree => step < (degreesToUse + 1) * shDegreeInterval
        /\ step >= shDegree * shDegreeInterval => degreesToUse = shDegree
C9_ShDegreeSchedule ==
    /\ []C9_DegreeAtStep
    /\ [][step' >= step /\ degreesToUse' >= degreesToUse]_vars

\* the colour stage was called past the step at which the cap is reached
C9_Witness ==
    /\ normalPath
    /\ pc = "rendered"
    /\ step > shDegree * shDegreeInterval
    /\ degreesToUse = shDegree

\* C10: every forward call, on the degenerate path as on the normal one,
\* requests retention of the gradient of the xys it produced, so that the
\* afterTrain call that follows reads a retained gradient.
C10_RetentionRequested == forwardReturned => xysRetainGrad

C4_UpdateStep ==
    LET old == ZerosIfEmpty(max2DSize)
        size == Max(lastHeight, lastWidth)
    IN  max2DSize' # max2DSize =>
            \A i \in Prims :
                /\ RLeq(old[i], max2DSize'[i])
                /\ radii[i] = 0 => max2DSize'[i] = old[i]
                /\ radii[i] > 0 =>
                    /\ RLeq(Rat(radii[i], size), max2DSize'[i])
                    /\ max2DSize'[i] \in {old[i], Rat(radii[i], size)}
                /\ (RLeq(old[i], ROne) /\ radii[i] <= size)
                        => RLeq(max2DSize'[i], ROne)
C4_Max2DSizeMonotoneBounded == [][C4_UpdateStep]_vars

\* an update recorded the normalised size of a visible primitive that fits
\* the larger, but not the smaller, dimension of a non-square image
C4_Witness ==
    /\ pc = "exited"
    /\ \E i \in Prims :
        /\ radii[i] > 0
        /\ radii[i] <= Max(lastHeight, lastWidth)
        /\ radii[i] > Min(lastHeight, lastWidth)
        /\ max2DSize[i] = Rat(radii[i], Max(lastHeight, lastWidth))

\* C5: the step never decreases; an afterTrain call with
\* warmupLength < step < stopSplitAt updates the running statistics; from
\* step >= stopSplitAt on, nothing changes visCounts, xysGradNorm, max2DSize
\* or the primitive count.
C5_Step ==
    /\ step' >= step
    /\ stopSplitAt' = stopSplitAt
    /\ step >= stopSplitAt => UNCHANGED <<xysGradNorm, visCounts, max2DSize, N>>
    /\ (pc = "backpropagated" /\ pc' # pc
            /\ warmupLength < step /\ step < stopSplitAt) =>
        /\ xysGradNorm' # Undefined
        /\ visCounts' # Undefined
        /\ max2DSize' # Undefined
        /\ \A i \in Prims : radii[i] > 0 => visSteps'[i] = visSteps[i] + 1
C7_GateSchedule ==
    afterTrainCalled =>
        LET due == atStep % refineEvery = 0 /\ atStep > warmupLength
            eligible == /\ atStep < stopSplitAt
                        /\ atStep % (resetAlphaEvery * refineEvery)
                                > numCameras + refineEvery
        IN  /\ gate \in {"eligible", "ineligible"} <=> due
            /\ gate = "eligible" <=> (due /\ eligible)

====
